---- MODULE Spec2Model ----
(***************************************************************************)
(* Model of backend/app/aggregation.py (class Aggregator): the buffer      *)
(* `rows`, Aggregator.add and Aggregator.aggregate, with the wall clock     *)
(* the two methods read; and of backend/app/server.py with                  *)
(* backend/app/mqtt_client.py: the mqtt_subscriber loop, the                *)
(* process_mqtt_message tasks on the one asyncio event loop, and            *)
(* ConnectionManager with its WebSockets.                                   *)
(*                                                                          *)
(* Representation.                                                          *)
(*  - A Python value is a record [t |-> <type name>, v |-> <content>].      *)
(*  - A str is the sequence of its character codes.                         *)
(*  - A float is modelled by an integer (every value of the model is an     *)
(*    integer-valued double, whose sums are exact); a mean is the exact     *)
(*    quotient, kept as a reduced fraction <<numerator, denominator>>.      *)
(*  - Time is counted in whole seconds from the model's epoch.  An         *)
(*    ISO-8601 text is miniaturised to DIGITS [ "Z" | ("+"|"-") DIGITS ]:   *)
(*    the digits are the local time in seconds, the suffix the UTC offset.  *)
(*  - A datetime is [local, aware, off]: the local reading of the clock,    *)
(*    whether it carries tzinfo, and its UTC offset (0 when naive).         *)
(*  - A payload dict is a record over the seven keys add() looks up; a key  *)
(*    mapped to PyNone stands for an absent key and for a key holding       *)
(*    null alike (dict.get answers None for both).                          *)
(*  - A coroutine is a record with a pc; the event loop runs one task at    *)
(*    a time (`running`) and changes task only where the task awaits.       *)
(*  - A set iterator is [pos, used]: the connections are visited in         *)
(*    ascending order from pos, used is the size of the set at iter().      *)
(***************************************************************************)
EXTENDS Integers, Sequences, FiniteSets, TLC

VARIABLES
    rows,            \* Aggregator.rows: the retained readings, in insertion order
    window_seconds,  \* Aggregator.window_seconds, fixed at construction
    now,             \* the wall clock, datetime.now(timezone.utc), in seconds
    tz_strict,       \* the build: whether polars refuses ("strict") or accepts ("lenient") a naive
                     \* datetime beside the aware cutoff; "unknown" until a naive one reaches a frame
    results_df,      \* what the last aggregate() returned (<<>>: an empty DataFrame)
    outcome,         \* how the last call ended
    op,              \* the last call: its name and, for add, its payload
    ids,             \* history: ids[i] is the serial number of the add() that stored rows[i]
    nadds,           \* history: number of calls of add() so far
    contrib,         \* history: serial numbers of the readings the last returned frame was computed from
    expired,         \* history: serial numbers of the readings seen older than the cutoff by some aggregate()
    subscriber,      \* server.py: the mqtt_subscriber task, where it is suspended and how often it retried
    tasks,           \* server.py: the process_mqtt_message tasks, in the order they were created
    running,         \* the task the event loop is running (0: none, every task is suspended)
    active_connections,  \* ConnectionManager.active_connections
    sockets,         \* the state of each WebSocket and its websocket_endpoint
    nmsgs,           \* history: number of MQTT messages the subscriber has consumed
    ncompute,        \* history: number of frames aggregate() has returned to a task
    delivered        \* history: per WebSocket, the messages sent to it, in order

\* the state of the server around the aggregator
svars == <<subscriber, tasks, running, active_connections, sockets, nmsgs, ncompute, delivered>>

vars ==
    <<rows, window_seconds, now, tz_strict, results_df, outcome, op, ids, nadds, contrib, expired,
      subscriber, tasks, running, active_connections, sockets, nmsgs, ncompute, delivered>>

----------------------------------------------------------------------------
(* Bounds of the model *)

\* the clock runs over 0..MaxTime
MaxTime == 2
\* the constructor's window_seconds ranges over 1..MaxWindow
MaxWindow == 1
\* add() is called at most MaxAdds times
MaxAdds == 3
\* under SpecAdd, add() is called at most MaxSpelledAdds times
MaxSpelledAdds == 3
\* the subscriber consumes at most MaxMessages MQTT messages
MaxMessages == 2
\* under SpecOrder, the subscriber consumes at most MaxOrderMessages MQTT messages
MaxOrderMessages == 3
\* there are MaxSockets WebSocket clients
MaxSockets == 2
\* under SpecPipeline and SpecOrder, at most MaxListeners of them ever connect
MaxListeners == 1
\* the transport fails at most MaxFailures times
MaxFailures == 2

----------------------------------------------------------------------------
(* Python values *)

PyNone == [t |-> "NoneType", v |-> 0]
PyInt(n) == [t |-> "int", v |-> n]
PyStr(s) == [t |-> "str", v |-> s]
PyDatetime(local, aware, off) ==
    [t |-> "datetime", v |-> [local |-> local, aware |-> aware, off |-> off]]

\* bool(x): None, 0 and "" are falsy
Truthy(x) ==
    CASE x.t = "NoneType" -> FALSE
      [] x.t = "int" -> x.v # 0
      [] x.t = "str" -> x.v # <<>>
      [] OTHER -> TRUE

\* a or b
PyOr(a, b) == IF Truthy(a) THEN a ELSE b

\* character codes: "Z", "+", "-", "0"
ChZ == 90
ChPlus == 43
ChMinus == 45
Ch0 == 48

IsDigit(c) == c >= Ch0 /\ c <= Ch0 + 9

RECURSIVE DecimalOf(_)
\* the number a non-empty run of digits denotes
DecimalOf(s) ==
    IF s = <<>> THEN 0
    ELSE 10 * DecimalOf(SubSeq(s, 1, Len(s) - 1)) + (s[Len(s)] - Ch0)

AllDigits(s) == s # <<>> /\ \A i \in 1..Len(s) : IsDigit(s[i])

RECURSIVE ReplaceZ(_)
\* s.replace("Z", "+00:00"): every "Z" becomes the text of a zero offset
ReplaceZ(s) ==
    IF s = <<>> THEN <<>>
    ELSE (IF s[1] = ChZ THEN <<ChPlus, Ch0>> ELSE <<s[1]>>) \o ReplaceZ(Tail(s))

\* index of the first sign character of s, 0 when it has none
SignPos(s) ==
    LET P == {i \in 1..Len(s) : s[i] = ChPlus \/ s[i] = ChMinus}
    IN  IF P = {} THEN 0 ELSE CHOOSE i \in P : \A j \in P : i <= j

\* datetime.fromisoformat(s): [ok, dt]; ok = FALSE is ValueError
FromIsoFormat(s) ==
    LET k == SignPos(s)
        bad == [ok |-> FALSE, dt |-> [local |-> 0, aware |-> FALSE, off |-> 0]]
    IN  IF k = 0
        THEN IF AllDigits(s)
             THEN [ok |-> TRUE, dt |-> [local |-> DecimalOf(s), aware |-> FALSE, off |-> 0]]
             ELSE bad
        ELSE LET l == SubSeq(s, 1, k - 1)
                 o == SubSeq(s, k + 1, Len(s))
             IN  IF AllDigits(l) /\ AllDigits(o)
                 THEN [ok |-> TRUE,
                       dt |-> [local |-> DecimalOf(l), aware |-> TRUE,
                               off |-> IF s[k] = ChPlus THEN DecimalOf(o) ELSE 0 - DecimalOf(o)]]
                 ELSE bad

\* float(x): [ok, f]; ok = FALSE is ValueError / TypeError
FloatOf(x) ==
    CASE x.t = "int" -> [ok |-> TRUE, f |-> x.v]
      [] x.t = "str" /\ AllDigits(x.v) -> [ok |-> TRUE, f |-> DecimalOf(x.v)]
      [] OTHER -> [ok |-> FALSE, f |-> 0]

\* the UTC instant a stored datetime denotes (a naive one read as UTC)
Instant(dt) == dt.local - dt.off

----------------------------------------------------------------------------
(* Aggregator.add *)

\* the test forgets the scrap index
IncompleteButForIndex(machine_id, scrap_index, value) ==
    machine_id = PyNone \/ value = PyNone

\* line 28: a reading needs all three of machine id, scrap index and value
Incomplete(machine_id, scrap_index, value) ==
    machine_id = PyNone \/ scrap_index = PyNone \/ value = PyNone

\* lines 32-37: the timestamp as a datetime, [ok, dt]; clock is datetime.now(timezone.utc)
ParseTimestamp(timestamp, clock) ==
    CASE timestamp.t = "datetime" ->
            [ok |-> TRUE,
             dt |-> IF timestamp.v.aware THEN timestamp.v
                    ELSE [local |-> timestamp.v.local, aware |-> TRUE, off |-> 0]]
      [] timestamp.t = "str" -> FromIsoFormat(ReplaceZ(timestamp.v))
      [] OTHER -> [ok |-> TRUE, dt |-> [local |-> clock, aware |-> TRUE, off |-> 0]]

\* lines 39-44: the dict appended to self.rows
NewRow(machine_id, scrap_index, f, dt) ==
    [maschinenId |-> machine_id, scrapIndex |-> scrap_index, value |-> f, zeitstempel |-> dt]

\* the row is appended before float() has accepted the value
AddResultAppendsEarly(rs, payload, clock) ==
    LET machine_id == PyOr(payload.machineId, payload.maschinenId)
        scrap_index == PyOr(payload.scrapIndex, payload.scrapeIndex)
        timestamp == PyOr(payload.timestamp, payload.zeitstempel)
        parsed == ParseTimestamp(timestamp, clock)
        fl == FloatOf(payload.value)
    IN  IF Incomplete(machine_id, scrap_index, payload.value)
        THEN [outcome |-> "dropped", rows |-> rs]
        ELSE IF ~parsed.ok
        THEN [outcome |-> "MalformedTimestamp", rows |-> rs]
        ELSE [outcome |-> IF fl.ok THEN "stored" ELSE "InvalidValue",
              rows |-> Append(rs, NewRow(machine_id, scrap_index, fl.f, parsed.dt))]

\* add(payload) as a function of the buffer and the clock: how it ends and the buffer it leaves
AddResult(rs, payload, clock) ==
    LET machine_id == PyOr(payload.machineId, payload.maschinenId)
        scrap_index == PyOr(payload.scrapIndex, payload.scrapeIndex)
        value == payload.value
        timestamp == PyOr(payload.timestamp, payload.zeitstempel)
        parsed == ParseTimestamp(timestamp, clock)
        fl == FloatOf(value)
    IN  IF Incomplete(machine_id, scrap_index, value)
        THEN [outcome |-> "dropped", rows |-> rs]
        ELSE IF ~parsed.ok
        THEN [outcome |-> "MalformedTimestamp", rows |-> rs]
        ELSE IF ~fl.ok
        THEN [outcome |-> "InvalidValue", rows |-> rs]
        ELSE [outcome |-> "stored",
              rows |-> Append(rs, NewRow(machine_id, scrap_index, fl.f, parsed.dt))]

Add(payload) ==
    LET r == AddResult(rows, payload, now)
    IN  /\ rows' = r.rows
        /\ outcome' = r.outcome
        /\ op' = [name |-> "add", payload |-> payload]
        /\ ids' = IF r.outcome = "stored" THEN Append(ids, nadds + 1) ELSE ids
        /\ nadds' = nadds + 1
        /\ results_df' = <<>>
        /\ contrib' = {}
        /\ UNCHANGED <<window_seconds, now, tz_strict, expired>>
        /\ UNCHANGED svars

----------------------------------------------------------------------------
(* Aggregator.aggregate *)

\* line 56
Cutoff(clock, w) == clock - w

\* the filter with > for >=: a reading stamped exactly at the cutoff is dropped
FilterIdxStrictlyAfter(rs, cutoff) == {i \in DOMAIN rs : Instant(rs[i].zeitstempel) > cutoff}

\* no filter at all: every row is kept
FilterIdxAll(rs, cutoff) == DOMAIN rs

\* line 59: the positions of the rows the filter keeps
FilterIdx(rs, cutoff) == {i \in DOMAIN rs : Instant(rs[i].zeitstempel) >= cutoff}

RECURSIVE SelectIdx(_, _)
\* the subsequence of s at the positions K, in order
SelectIdx(s, K) ==
    IF s = <<>> THEN <<>>
    ELSE SelectIdx(SubSeq(s, 1, Len(s) - 1), K)
            \o (IF Len(s) \in K THEN <<s[Len(s)]>> ELSE <<>>)

\* the frame is grouped unfiltered
RecentUnfiltered(rs, cutoff) == rs

\* line 59: recent = df.filter(zeitstempel >= cutoff)
Recent(rs, cutoff) == SelectIdx(rs, FilterIdx(rs, cutoff))

\* the buffer is drained instead of being replaced by the recent rows
ToDictsDrained(rs) == <<>>

\* line 61: recent.to_dicts(); a frame holds its instants in UTC
ToDicts(rs) ==
    [i \in DOMAIN rs |->
        [rs[i] EXCEPT !.zeitstempel =
            [local |-> Instant(rs[i].zeitstempel), aware |-> TRUE, off |-> 0]]]

\* lines 58-59: whether building the frame and comparing it with the aware cutoff raises
FrameRaises(rs, strict) == strict = "strict" /\ \E i \in DOMAIN rs : ~rs[i].zeitstempel.aware

\* line 67: the groups of group_by(["maschinenId", "scrapIndex"])
GroupKeys(rs) == {<<rs[i].maschinenId, rs[i].scrapIndex>> : i \in DOMAIN rs}

\* the values of the rows of group k, in row order
GroupValues(rs, k) ==
    LET K == {i \in DOMAIN rs : <<rs[i].maschinenId, rs[i].scrapIndex>> = k}
        picked == SelectIdx(rs, K)
    IN  [i \in DOMAIN picked |-> picked[i].value]

RECURSIVE SumOf(_)
\* line 69: pl.col("value").sum()
SumOf(vs) == IF vs = <<>> THEN 0 ELSE vs[1] + SumOf(Tail(vs))

RECURSIVE Gcd(_, _)
Gcd(a, b) == IF b = 0 THEN a ELSE Gcd(b, a % b)

\* the quotient n / d (d > 0, n >= 0) as a reduced fraction
Quotient(n, d) == LET g == Gcd(n, d) IN <<n \div g, d \div g>>

\* the mean taken over one row too many
MeanOfOffByOne(vs) == Quotient(SumOf(vs), Len(vs) + 1)

\* line 70: pl.col("value").mean()
MeanOf(vs) == Quotient(SumOf(vs), Len(vs))

\* line 71: pl.col("value").count()
CountOf(vs) == Len(vs)

\* lines 68-72: the row of group k
AggRow(rs, k) ==
    LET vs == GroupValues(rs, k)
    IN  [maschinenId |-> k[1], scrapIndex |-> k[2],
         sumLast60s |-> SumOf(vs), avgLast60s |-> MeanOf(vs), messageCount |-> CountOf(vs)]

RECURSIVE StrLess(_, _)
\* a < b for two str: lexicographic on the character codes
StrLess(a, b) ==
    IF b = <<>> THEN FALSE
    ELSE IF a = <<>> THEN TRUE
    ELSE IF a[1] # b[1] THEN a[1] < b[1]
    ELSE StrLess(Tail(a), Tail(b))

\* the descending order
RowLessDescending(a, b) ==
    \/ StrLess(b.maschinenId.v, a.maschinenId.v)
    \/ a.maschinenId = b.maschinenId /\ b.scrapIndex.v < a.scrapIndex.v

\* line 73: the order of sort(["maschinenId", "scrapIndex"])
RowLess(a, b) ==
    \/ StrLess(a.maschinenId.v, b.maschinenId.v)
    \/ a.maschinenId = b.maschinenId /\ a.scrapIndex.v < b.scrapIndex.v

RECURSIVE SortRows(_)
\* line 73: the rows of the set S in ascending order
SortRows(S) ==
    IF S = {} THEN <<>>
    ELSE LET m == CHOOSE x \in S : \A y \in S \ {x} : RowLess(x, y)
         IN  <<m>> \o SortRows(S \ {m})

\* lines 63-74: the frame returned for the recent rows
Frame(recent) ==
    IF recent = <<>> THEN <<>>
    ELSE SortRows({AggRow(recent, k) : k \in GroupKeys(recent)})

\* the readings older than the cutoff, by serial number
ExpiredIds(rs, is, cutoff) ==
    {is[i] : i \in {j \in DOMAIN rs : Instant(rs[j].zeitstempel) < cutoff}}

Aggregate ==
    LET cutoff == Cutoff(now, window_seconds)
        keep == FilterIdx(rows, cutoff)
        recent == Recent(rows, cutoff)
        again == op.name \in {"aggregate", "aggregate_again"}
        naive == \E i \in DOMAIN rows : ~rows[i].zeitstempel.aware
    IN  /\ op' = [name |-> IF again THEN "aggregate_again" ELSE "aggregate", payload |-> PyNone]
        /\ IF rows = <<>>
           THEN /\ outcome' = "returned"
                /\ results_df' = <<>>
                /\ contrib' = {}
                /\ UNCHANGED <<rows, ids, expired, tz_strict>>
           ELSE \* the build shows itself the first time a naive datetime reaches the frame
                /\ tz_strict' \in (IF naive /\ tz_strict = "unknown"
                                   THEN {"strict", "lenient"} ELSE {tz_strict})
                /\ expired' = expired \cup ExpiredIds(rows, ids, now - window_seconds)
                /\ IF FrameRaises(rows, tz_strict')
                   THEN /\ outcome' = "raised"
                        /\ results_df' = <<>>
                        /\ contrib' = {}
                        /\ UNCHANGED <<rows, ids>>
                   ELSE /\ outcome' = "returned"
                        /\ rows' = ToDicts(recent)
                        /\ results_df' = Frame(recent)
                        /\ ids' = SelectIdx(ids, keep)
                        /\ contrib' = {ids[i] : i \in keep}
        /\ UNCHANGED <<window_seconds, now, nadds>>
        /\ UNCHANGED svars

----------------------------------------------------------------------------
(* The clock *)

Tick ==
    /\ now < MaxTime
    /\ \E t \in (now + 1)..MaxTime : now' = t
    /\ op' = [name |-> "tick", payload |-> PyNone]
    /\ outcome' = "none"
    /\ results_df' = <<>>
    /\ contrib' = {}
    /\ UNCHANGED <<rows, window_seconds, tz_strict, ids, nadds, expired>>
    /\ UNCHANGED svars

----------------------------------------------------------------------------
(* Payloads *)

A1 == PyStr(<<65, 49>>)
B1 == PyStr(<<66, 49>>)

\* the text of an instant: local seconds, then "Z", an offset, or nothing
IsoZ(d) == PyStr(<<Ch0 + d, ChZ>>)
IsoPlus(d, o) == PyStr(<<Ch0 + d, ChPlus, Ch0 + o>>)
IsoNaive(d) == PyStr(<<Ch0 + d>>)

Payload(m1, m2, s1, s2, v, t1, t2) ==
    [machineId |-> m1, maschinenId |-> m2, scrapIndex |-> s1, scrapeIndex |-> s2,
     value |-> v, timestamp |-> t1, zeitstempel |-> t2]

\* what the simulator publishes: the localized spelling, stamped with the clock or not at all
Readings ==
    {Payload(PyNone, k[1], PyNone, PyInt(k[2]), PyInt(2), PyNone, PyNone) :
        k \in {<<A1, 1>>, <<A1, 2>>, <<B1, 2>>}}
    \cup {Payload(A1, PyNone, PyInt(1), PyNone, PyInt(v), PyNone, PyNone) : v \in {4, 6}}
    \cup {Payload(A1, PyNone, PyInt(1), PyNone, PyInt(2), t, PyNone) :
            t \in {IsoPlus(1, 1), IsoNaive(0)}}

\* a text that is no timestamp
NotIso == PyStr(<<78, 79>>)
\* a text that is no number
NotNumber == PyStr(<<78, 79>>)

\* the two spellings of the timestamp: under neither, under both, under the second alone,
\* a malformed text, and a typed instant without zone
Stamps ==
    {<<PyNone, PyNone>>, <<IsoZ(1), IsoZ(2)>>, <<PyNone, IsoZ(2)>>, <<NotIso, PyNone>>,
     <<PyDatetime(1, FALSE, 0), PyNone>>}

\* payloads that vary one field at a time around a complete one: the two spellings of the
\* machine id, the two of the scrap index (0, which Python takes for false, among its values),
\* the value, the two spellings of the timestamp; and payloads that lack a field
Spelled ==
    {Payload(m1, m2, PyInt(1), PyNone, PyInt(2), PyNone, PyNone) :
        m1 \in {PyNone, A1}, m2 \in {PyNone, B1}}
    \cup {Payload(A1, PyNone, s1, s2, PyInt(2), PyNone, PyNone) :
            s1 \in {PyNone, PyInt(0), PyInt(1)}, s2 \in {PyNone, PyInt(0), PyInt(2)}}
    \cup {Payload(A1, PyNone, PyInt(1), PyNone, v, PyNone, PyNone) :
            v \in {PyNone, PyInt(0), PyInt(2), NotNumber}}
    \cup {Payload(A1, PyNone, PyInt(1), PyNone, PyInt(2), t[1], t[2]) : t \in Stamps}
    \cup {Payload(PyNone, PyNone, PyInt(1), PyNone, v, t[1], t[2]) :
            v \in {PyInt(2), NotNumber}, t \in Stamps}
    \cup {Payload(A1, PyNone, PyNone, PyNone, v, t[1], t[2]) :
            v \in {PyInt(2), NotNumber}, t \in Stamps}
    \cup {Payload(PyNone, B1, PyNone, PyInt(2), PyNone, t[1], t[2]) : t \in Stamps}
    \cup {Payload(A1, PyNone, PyInt(1), PyNone, PyInt(2), IsoZ(2), PyNone),
          Payload(PyNone, A1, PyNone, PyInt(1), PyInt(2), PyNone, IsoZ(2))}

----------------------------------------------------------------------------
(* server.py: the event loop, the MQTT subscriber, the tasks and the WebSockets *)

Sockets == 1..MaxSockets

\* aggregator = Aggregator(window_seconds=60): the clock of the server counts whole windows
ServerWindow == 1

\* what the aggregator's callers of the other specifications record, untouched by the server
hvars == <<results_df, outcome, op, ids, nadds, contrib, expired>>

\* every step of a coroutine gives the event loop away
YieldsAnywhere(pc) == TRUE

\* a coroutine gives the event loop away only where it awaits something that is not ready, or
\* ends: process_mqtt_message and broadcast await nothing but send_json (server.py line 68)
Yields(pc) == pc \in {"sent", "done", "failed"}

\* asyncio.create_task(process_mqtt_message(payload)): the task, before its first step
NewTask(payload) ==
    [pc |-> "add", payload |-> payload, seen |-> <<>>, recent |-> <<>>, frame |-> <<>>,
     serial |-> 0, it |-> [pos |-> 0, used |-> 0], disconnected |-> {},
     registered |-> {}, attempted |-> {}, error |-> "none"]

\* task t may take a step: the loop runs it already, or runs nothing and t is ready; tasks
\* take their first step in the order they were created
CanStep(t) ==
    /\ tasks[t].pc \notin {"done", "failed"}
    /\ running \in {0, t}
    /\ tasks[t].pc = "add" => \A u \in 1..(t - 1) : tasks[u].pc # "add"

\* task t goes on as record r
Step(t, r) ==
    /\ tasks' = [tasks EXCEPT ![t] = r]
    /\ running' = IF Yields(r.pc) THEN 0 ELSE t

\* aggregator.add(payload): an exception of add() ends the task
TaskAdd(t) ==
    LET r == AddResult(rows, tasks[t].payload, now)
        raised == r.outcome \in {"MalformedTimestamp", "InvalidValue"}
    IN  /\ CanStep(t) /\ tasks[t].pc = "add"
        /\ rows' = r.rows
        /\ Step(t, [tasks[t] EXCEPT !.pc = IF raised THEN "failed" ELSE "read",
                                    !.error = IF raised THEN r.outcome ELSE "none"])
        /\ UNCHANGED <<window_seconds, now, tz_strict, hvars>>
        /\ UNCHANGED <<subscriber, active_connections, sockets, nmsgs, ncompute, delivered>>

\* aggregate(), lines 52-59: the buffer is read into a frame and filtered
TaskRead(t) ==
    LET naive == \E i \in DOMAIN rows : ~rows[i].zeitstempel.aware
    IN  /\ CanStep(t) /\ tasks[t].pc = "read"
        /\ tz_strict' \in (IF naive /\ tz_strict = "unknown"
                           THEN {"strict", "lenient"} ELSE {tz_strict})
        /\ Step(t, IF rows = <<>>
                   THEN [tasks[t] EXCEPT !.pc = "done"]
                   ELSE IF FrameRaises(rows, tz_strict')
                   THEN [tasks[t] EXCEPT !.pc = "failed", !.error = "raised"]
                   ELSE [tasks[t] EXCEPT !.pc = "replace", !.seen = rows,
                                         !.recent = Recent(rows, Cutoff(now, window_seconds))])
        /\ UNCHANGED <<rows, window_seconds, now, hvars>>
        /\ UNCHANGED <<subscriber, active_connections, sockets, nmsgs, ncompute, delivered>>

\* aggregate(), lines 61-74, and server.py line 85: the buffer is replaced, the frame grouped
TaskReplace(t) ==
    LET frame == Frame(tasks[t].recent)
    IN  /\ CanStep(t) /\ tasks[t].pc = "replace"
        /\ rows' = ToDicts(tasks[t].recent)
        /\ ncompute' = ncompute + 1
        /\ Step(t, [tasks[t] EXCEPT !.pc = IF frame = <<>> THEN "done" ELSE "row",
                                    !.frame = frame, !.serial = ncompute + 1,
                                    !.seen = <<>>, !.recent = <<>>])
        /\ UNCHANGED <<window_seconds, now, tz_strict, hvars>>
        /\ UNCHANGED <<subscriber, active_connections, sockets, nmsgs, delivered>>

\* round(x, 2) of a fraction, in hundredths, a tie going to the even neighbour
Round2(q) ==
    LET whole == (100 * q[1]) \div q[2]
        rest == (100 * q[1]) % q[2]
    IN  IF 2 * rest > q[2] \/ (2 * rest = q[2] /\ whole % 2 = 1) THEN whole + 1 ELSE whole

\* server.py lines 87-93: the message of a row; serial is history, the frame it came from
BroadcastData(row, clock, serial) ==
    [maschinenId |-> row.maschinenId, scrapIndex |-> row.scrapIndex,
     sumLast60s |-> row.sumLast60s, avgLast60s |-> Round2(row.avgLast60s),
     timestamp |-> clock, serial |-> serial]

\* server.py lines 86-94 and 65-66: the next row of the frame; broadcast() opens its iteration
TaskRow(t) ==
    /\ CanStep(t) /\ tasks[t].pc = "row"
    /\ Step(t, [tasks[t] EXCEPT !.pc = "next",
                                !.it = [pos |-> 0, used |-> Cardinality(active_connections)],
                                !.disconnected = {},
                                !.registered = active_connections,
                                !.attempted = {}])
    /\ UNCHANGED <<rows, window_seconds, now, tz_strict, hvars>>
    /\ UNCHANGED <<subscriber, active_connections, sockets, nmsgs, ncompute, delivered>>

\* the connections a set iterator at position pos has still to yield
Ahead(pos) == {c \in active_connections : c > pos}

\* the least member of a non-empty set of connections
First(S) == CHOOSE c \in S : \A d \in S : c <= d

\* the set iterator raises RuntimeError when the set has changed size since iter()
NextRaises(it) == Cardinality(active_connections) # it.used

\* server.py lines 66 and 73-74: the iterator's next(), on entry or when the awaited send is
\* over; at the end of the set the failed connections are discarded and the row is done
TaskNext(t) ==
    LET me == tasks[t]
    IN  /\ CanStep(t) /\ me.pc \in {"next", "sent"}
        /\ IF NextRaises(me.it)
           THEN /\ Step(t, [me EXCEPT !.pc = "failed", !.error = "RuntimeError"])
                /\ UNCHANGED active_connections
           ELSE IF Ahead(me.it.pos) # {}
           THEN /\ Step(t, [me EXCEPT !.pc = "send", !.it.pos = First(Ahead(me.it.pos))])
                /\ UNCHANGED active_connections
           ELSE /\ active_connections' = active_connections \ me.disconnected
                /\ Step(t, [me EXCEPT !.pc = IF Len(me.frame) = 1 THEN "done" ELSE "row",
                                      !.frame = Tail(me.frame)])
        /\ UNCHANGED <<rows, window_seconds, now, tz_strict, hvars>>
        /\ UNCHANGED <<subscriber, sockets, nmsgs, ncompute, delivered>>

\* server.py lines 67-71: await connection.send_json(message); a send to a WebSocket whose
\* peer is gone raises, which is caught
TaskSend(t) ==
    LET me == tasks[t]
        c == me.it.pos
    IN  /\ CanStep(t) /\ me.pc = "send"
        /\ IF sockets[c] = "open"
           THEN /\ delivered' = [delivered EXCEPT
                        ![c] = Append(@, BroadcastData(me.frame[1], now, me.serial))]
                /\ Step(t, [me EXCEPT !.pc = "sent", !.attempted = @ \cup {c}])
           ELSE /\ UNCHANGED delivered
                /\ Step(t, [me EXCEPT !.pc = "sent", !.attempted = @ \cup {c},
                                      !.disconnected = @ \cup {c}])
        /\ UNCHANGED <<rows, window_seconds, now, tz_strict, hvars>>
        /\ UNCHANGED <<subscriber, active_connections, sockets, nmsgs, ncompute>>

\* websocket_endpoint, line 121, and lines 52-56: manager.connect accepts and registers the WebSocket
Connect(w) ==
    /\ running = 0 /\ sockets[w] = "new"
    /\ sockets' = [sockets EXCEPT ![w] = "open"]
    /\ active_connections' = active_connections \cup {w}
    /\ UNCHANGED <<rows, window_seconds, now, tz_strict, hvars>>
    /\ UNCHANGED <<subscriber, tasks, running, nmsgs, ncompute, delivered>>

\* the peer of an open WebSocket goes away
PeerClose(w) ==
    /\ running = 0 /\ sockets[w] = "open"
    /\ sockets' = [sockets EXCEPT ![w] = "gone"]
    /\ UNCHANGED <<rows, window_seconds, now, tz_strict, hvars>>
    /\ UNCHANGED <<subscriber, tasks, running, active_connections, nmsgs, ncompute, delivered>>

\* websocket_endpoint, lines 124-130, and lines 58-61: receive_text raises, manager.disconnect
\* discards
Disconnect(w) ==
    /\ running = 0 /\ sockets[w] = "gone"
    /\ sockets' = [sockets EXCEPT ![w] = "closed"]
    /\ active_connections' = active_connections \ {w}
    /\ UNCHANGED <<rows, window_seconds, now, tz_strict, hvars>>
    /\ UNCHANGED <<subscriber, tasks, running, nmsgs, ncompute, delivered>>

\* the handlers swallow the cancellation as they do a transport failure
OnRaisedSwallowsCancel(pc, exc) == IF pc = "sleep" THEN "cancelled" ELSE "sleep"

\* where mqtt_subscriber goes when its await raises exc: inside client.start() (lines 107-115)
\* CancelledError is raised again and any Exception leads to the sleep; inside the sleep of
\* the handler nothing catches
OnRaised(pc, exc) ==
    IF pc \in {"connect", "listen"} /\ exc # "CancelledError" THEN "sleep" ELSE "cancelled"

\* the subscriber may take a step: the loop runs nothing, and no cancellation is pending
SubscriberCanStep == running = 0 /\ ~subscriber.cancel /\ subscriber.pc # "cancelled"

\* mqtt_client.py lines 43-45: the connection is made and the topic subscribed
Connected ==
    /\ SubscriberCanStep /\ subscriber.pc = "connect"
    /\ subscriber' = [subscriber EXCEPT !.pc = "listen"]
    /\ UNCHANGED <<rows, window_seconds, now, tz_strict, hvars>>
    /\ UNCHANGED <<tasks, running, active_connections, sockets, nmsgs, ncompute, delivered>>

\* the transport fails while connecting or listening: mqtt_client.py lines 57-59 raise on
TransportFailure ==
    /\ SubscriberCanStep /\ subscriber.pc \in {"connect", "listen"}
    /\ subscriber.failures < MaxFailures
    /\ subscriber' = [subscriber EXCEPT !.pc = OnRaised(subscriber.pc, "MqttError"),
                                        !.failures = @ + 1]
    /\ UNCHANGED <<rows, window_seconds, now, tz_strict, hvars>>
    /\ UNCHANGED <<tasks, running, active_connections, sockets, nmsgs, ncompute, delivered>>

\* server.py line 115 and line 99: the sleep is over, the loop builds a new client
Wake ==
    /\ SubscriberCanStep /\ subscriber.pc = "sleep"
    /\ subscriber' = [subscriber EXCEPT !.pc = "connect"]
    /\ UNCHANGED <<rows, window_seconds, now, tz_strict, hvars>>
    /\ UNCHANGED <<tasks, running, active_connections, sockets, nmsgs, ncompute, delivered>>

\* lifespan, line 33: task.cancel()
Cancel ==
    /\ running = 0 /\ ~subscriber.cancel /\ subscriber.pc # "cancelled"
    /\ subscriber' = [subscriber EXCEPT !.cancel = TRUE]
    /\ UNCHANGED <<rows, window_seconds, now, tz_strict, hvars>>
    /\ UNCHANGED <<tasks, running, active_connections, sockets, nmsgs, ncompute, delivered>>

\* the cancelled subscriber is resumed: its await raises CancelledError
Cancelled ==
    /\ running = 0 /\ subscriber.cancel /\ subscriber.pc # "cancelled"
    /\ subscriber' = [subscriber EXCEPT !.pc = OnRaised(subscriber.pc, "CancelledError")]
    /\ UNCHANGED <<rows, window_seconds, now, tz_strict, hvars>>
    /\ UNCHANGED <<tasks, running, active_connections, sockets, nmsgs, ncompute, delivered>>

\* json.loads raises out of the loop over the messages, as a transport failure does
AfterDecodeErrorUncaught == OnRaised("listen", "JSONDecodeError")

\* mqtt_client.py lines 52-53: the JSONDecodeError is caught and logged inside the loop over
\* the messages, which goes on
AfterDecodeError == "listen"

\* mqtt_client.py lines 47-55: a message arrives; json.loads raises on msg.json = FALSE, which
\* is caught, and on_message creates the task otherwise
Receive(msg) ==
    /\ SubscriberCanStep /\ subscriber.pc = "listen"
    /\ nmsgs' = nmsgs + 1
    /\ tasks' = IF msg.json THEN Append(tasks, NewTask(msg.payload)) ELSE tasks
    /\ subscriber' = [subscriber EXCEPT !.pc = IF msg.json THEN "listen" ELSE AfterDecodeError]
    /\ UNCHANGED <<rows, window_seconds, now, tz_strict, hvars>>
    /\ UNCHANGED <<running, active_connections, sockets, ncompute, delivered>>

\* the clock moves on while every task is suspended
ServerTick ==
    /\ running = 0 /\ now < MaxTime
    /\ now' = now + 1
    /\ UNCHANGED <<rows, window_seconds, tz_strict, hvars, svars>>

\* what the simulator publishes for machine m at the clock
Published(m, clock) == Payload(PyNone, m, PyNone, PyInt(1), PyInt(2), PyNone, IsoZ(clock))

\* the well-formed messages on the topic
WellFormed(clock) == {[json |-> TRUE, payload |-> Published(m, clock)] : m \in {A1, B1}}

\* the messages on the topic: well-formed ones, and the three malformed kinds
Messages(clock) ==
    WellFormed(clock)
    \cup {[json |-> TRUE, payload |-> Payload(PyNone, A1, PyNone, PyInt(1), PyInt(2), PyNone, NotIso)],
          [json |-> TRUE, payload |-> Payload(PyNone, A1, PyNone, PyInt(1), NotNumber, PyNone, PyNone)],
          [json |-> FALSE, payload |-> PyNone]}

----------------------------------------------------------------------------
(* Specification *)

Init ==
    /\ rows = <<>>
    /\ window_seconds \in 1..MaxWindow
    /\ now = 0
    /\ tz_strict = "unknown"
    /\ results_df = <<>>
    /\ outcome = "none"
    /\ op = [name |-> "init", payload |-> PyNone]
    /\ ids = <<>>
    /\ nadds = 0
    /\ contrib = {}
    /\ expired = {}
    /\ subscriber = [pc |-> "connect", failures |-> 0, cancel |-> FALSE]
    /\ tasks = <<>>
    /\ running = 0
    /\ active_connections = {}
    /\ sockets = [w \in Sockets |-> "new"]
    /\ nmsgs = 0
    /\ ncompute = 0
    /\ delivered = [w \in Sockets |-> <<>>]

Next ==
    \/ \E payload \in Readings : nadds < MaxAdds /\ Add(payload)
    \/ Aggregate
    \/ Tick

Spec == Init /\ [][Next]_vars

\* add() over the spellings of its payload, and aggregate()
NextAdd ==
    \/ \E payload \in Spelled : nadds < MaxSpelledAdds /\ Add(payload)
    \/ Aggregate

SpecAdd == Init /\ [][NextAdd]_vars

\* the server: its aggregator is built with the one window
InitServer == Init /\ window_seconds = ServerWindow

\* a step of some process_mqtt_message task
TaskStep ==
    \E t \in DOMAIN tasks :
        TaskAdd(t) \/ TaskRead(t) \/ TaskReplace(t) \/ TaskRow(t) \/ TaskNext(t) \/ TaskSend(t)

\* the subscriber loop alone: connections, failures, retries, cancellation, messages
NextSubscriber ==
    \/ Connected \/ TransportFailure \/ Wake \/ Cancel \/ Cancelled
    \/ \E msg \in Messages(now) : nmsgs < MaxMessages /\ Receive(msg)

SpecSubscriber == InitServer /\ [][NextSubscriber]_vars

\* the pipeline from the topic to the WebSockets, malformed messages among the well-formed
NextPipeline ==
    \/ TaskStep
    \/ \E w \in 1..MaxListeners : Connect(w)
    \/ Connected
    \/ \E msg \in Messages(now) : nmsgs < MaxMessages /\ Receive(msg)

SpecPipeline == InitServer /\ [][NextPipeline]_vars

\* well-formed messages over time, their tasks in flight together
NextOrder ==
    \/ TaskStep
    \/ \E w \in 1..MaxListeners : Connect(w)
    \/ Connected
    \/ \E msg \in WellFormed(now) : nmsgs < MaxOrderMessages /\ Receive(msg)
    \/ ServerTick

SpecOrder == InitServer /\ [][NextOrder]_vars

\* broadcasts while WebSocket clients come and go
NextBroadcast ==
    \/ TaskStep
    \/ \E w \in Sockets : Connect(w) \/ PeerClose(w) \/ Disconnect(w)
    \/ Connected
    \/ \E msg \in WellFormed(now) : nmsgs < MaxMessages /\ Receive(msg)

SpecBroadcast == InitServer /\ [][NextBroadcast]_vars

----------------------------------------------------------------------------
(* Properties of Aggregator.aggregate *)

AggregateNames == {"aggregate", "aggregate_again"}

\* the step is a call of aggregate() that returned a frame
Returned == op'.name \in AggregateNames /\ outcome' = "returned"

\* the positions of buffer rs whose reading has key <<m, s>> and lies in the window at the clock
InWindow(rs, m, s, clock, w) ==
    {j \in DOMAIN rs : /\ rs[j].maschinenId = m
                       /\ rs[j].scrapIndex = s
                       /\ rs[j].zeitstempel.local - rs[j].zeitstempel.off >= clock - w}

RECURSIVE ValueTotal(_, _)
\* the sum of the values of buffer rs at the positions K
ValueTotal(rs, K) ==
    IF K = {} THEN 0
    ELSE LET j == CHOOSE x \in K : TRUE IN rs[j].value + ValueTotal(rs, K \ {j})

\* C1: the count of every returned row is the number of readings the buffer held at the
\* call with the row's key and a timestamp at or after now - window_seconds
C1_CountIsWindowCount ==
    [][Returned =>
        \A i \in DOMAIN results_df' :
            results_df'[i].messageCount =
                Cardinality(InWindow(rows, results_df'[i].maschinenId, results_df'[i].scrapIndex,
                                     now, window_seconds))]_vars

\* C1 witness: a frame came back that counts two readings of a key while an older third was outside
C1_Witness ==
    /\ op.name = "aggregate" /\ outcome = "returned"
    /\ nadds = 3 /\ Cardinality(contrib) = 2 /\ Cardinality(expired) = 1
    /\ Len(results_df) = 1 /\ results_df[1].messageCount = 2

\* C2: the keys of the returned rows are exactly the keys of the readings inside the window,
\* one row per key, and every row counts at least one reading
C2_KeysAreRecentKeys ==
    [][Returned =>
        LET recentKeys == {<<rows[j].maschinenId, rows[j].scrapIndex>> :
                            j \in {x \in DOMAIN rows :
                                    rows[x].zeitstempel.local - rows[x].zeitstempel.off
                                        >= now - window_seconds}}
            rowKeys == {<<results_df'[i].maschinenId, results_df'[i].scrapIndex>> :
                            i \in DOMAIN results_df'}
        IN  /\ rowKeys = recentKeys
            /\ Len(results_df') = Cardinality(recentKeys)
            /\ \A i \in DOMAIN results_df' : results_df'[i].messageCount >= 1]_vars

\* C2 witness: two keys inside the window give two rows while a third key has only an expired reading
C2_Witness ==
    /\ op.name = "aggregate" /\ outcome = "returned"
    /\ Len(results_df) = 2 /\ Cardinality(contrib) = 2 /\ Cardinality(expired) = 1
    /\ results_df[1].maschinenId # results_df[2].maschinenId

\* C3: the sum of every returned row is the sum of the values of the readings of its group
\* inside the window, and its mean is that sum divided by its count
C3_SumAndMean ==
    [][Returned =>
        \A i \in DOMAIN results_df' :
            LET r == results_df'[i]
                K == InWindow(rows, r.maschinenId, r.scrapIndex, now, window_seconds)
            IN  /\ r.sumLast60s = ValueTotal(rows, K)
                /\ r.avgLast60s[2] > 0
                /\ r.avgLast60s[1] * r.messageCount = r.sumLast60s * r.avgLast60s[2]]_vars

\* C3 witness: readings 2.0, 4.0, 6.0 of ("A1", 1) give the one row sum 12.0, mean 4.0, count 3
C3_Witness ==
    /\ op.name = "aggregate" /\ outcome = "returned"
    /\ {rows[j].value : j \in DOMAIN rows} = {2, 4, 6}
    /\ results_df = <<[maschinenId |-> A1, scrapIndex |-> PyInt(1),
                       sumLast60s |-> 12, avgLast60s |-> <<4, 1>>, messageCount |-> 3]>>

\* a comes before b in the lexicographic order of their character codes
LexBefore(a, b) ==
    \E k \in 1..Len(b) :
        /\ \A j \in 1..(k - 1) : j <= Len(a) /\ a[j] = b[j]
        /\ k > Len(a) \/ a[k] < b[k]

\* C4: the returned rows ascend by maschinenId and, for one maschinenId, by scrapIndex
C4_RowsSorted ==
    \A i \in DOMAIN results_df : \A j \in DOMAIN results_df :
        i < j =>
            \/ LexBefore(results_df[i].maschinenId.v, results_df[j].maschinenId.v)
            \/ /\ results_df[i].maschinenId = results_df[j].maschinenId
               /\ results_df[i].scrapIndex.v < results_df[j].scrapIndex.v

\* C4 witness: ("B1", 2) was added before ("A1", 2) and ("A1", 1), and the rows come back as
\* ("A1", 1), ("A1", 2), ("B1", 2)
C4_Witness ==
    /\ op.name = "aggregate" /\ outcome = "returned"
    /\ Len(rows) = 3
    /\ rows[1].maschinenId = B1 /\ rows[2].scrapIndex = PyInt(2) /\ rows[2].maschinenId = A1
    /\ Len(results_df) = 3
    /\ results_df[1].maschinenId = A1 /\ results_df[1].scrapIndex = PyInt(1)
    /\ results_df[2].maschinenId = A1 /\ results_df[2].scrapIndex = PyInt(2)
    /\ results_df[3].maschinenId = B1

\* a reading as the buffer contract sees it: key, value and UTC instant
ReadingOf(row) ==
    <<row.maschinenId, row.scrapIndex, row.value, row.zeitstempel.local - row.zeitstempel.off>>

\* C5 (the claim as stated): after every call of aggregate() the buffer holds exactly the
\* readings it held before that lie at or after the cutoff, in their multiplicity, and none older
C5_BufferIsRecentPartition ==
    [][op'.name \in AggregateNames =>
        LET cutoff == now - window_seconds
            contents == {ReadingOf(rows[j]) : j \in DOMAIN rows}
                            \cup {ReadingOf(rows'[j]) : j \in DOMAIN rows'}
        IN  /\ \A j \in DOMAIN rows' : ReadingOf(rows'[j])[4] >= cutoff
            /\ \A c \in contents :
                c[4] >= cutoff =>
                    Cardinality({j \in DOMAIN rows' : ReadingOf(rows'[j]) = c})
                        = Cardinality({j \in DOMAIN rows : ReadingOf(rows[j]) = c})]_vars

\* C6: a reading that some call of aggregate() saw older than its cutoff is not among the
\* readings the frame of that call or of any later call was computed from
C6_ExpiredNeverContributes == contrib \cap expired = {}

\* C6 witness: two readings have expired, and a later frame is computed from the third alone
C6_Witness ==
    /\ op.name \in AggregateNames /\ outcome = "returned"
    /\ expired = {1, 2} /\ contrib = {3} /\ Len(results_df) = 1

\* C7: a second call of aggregate() at the same instant, with no add() between, ends as the
\* first did, returns the same rows and leaves the buffer as the first left it
C7_SecondCallSame ==
    [][op.name \in AggregateNames /\ op'.name \in AggregateNames =>
        /\ outcome' = outcome
        /\ results_df' = results_df
        /\ rows' = rows]_vars

\* C7 witness: the second of two successive calls returned rows, after the first had evicted
C7_Witness ==
    /\ op.name = "aggregate_again" /\ outcome = "returned"
    /\ results_df # <<>> /\ expired # {}

----------------------------------------------------------------------------
(* Properties of Aggregator.add *)

\* the step is a call of add()
Added == op'.name = "add"

\* the payload has the field under neither of the spellings a and b
Lacks(p, a, b) == p[a] = PyNone /\ p[b] = PyNone

\* C8: add() of a payload that has the machine id, the scrap index or the value under
\* neither spelling raises nothing and leaves the buffer as it was
C8_IncompleteIsNoOp ==
    [][Added /\ ( \/ Lacks(op'.payload, "machineId", "maschinenId")
                  \/ Lacks(op'.payload, "scrapIndex", "scrapeIndex")
                  \/ op'.payload.value = PyNone )
        => outcome' = "dropped" /\ rows' = rows]_vars

\* C8 witness: a payload with machine id and value but no scrap index (and a timestamp that
\* would not parse) was dropped, the buffer keeping the reading it held
C8_Witness ==
    /\ op.name = "add" /\ outcome = "dropped"
    /\ op.payload.machineId = A1 /\ op.payload.value = PyInt(2)
    /\ Lacks(op.payload, "scrapIndex", "scrapeIndex")
    /\ op.payload.timestamp = NotIso
    /\ Len(rows) = 1

\* the field is an int under one of the spellings a and b, and an int or missing under the other
CarriesInt(p, a, b) ==
    /\ p[a].t \in {"int", "NoneType"} /\ p[b].t \in {"int", "NoneType"}
    /\ ~Lacks(p, a, b)

\* the field is a non-empty str under one of the spellings a and b, and such a str or missing
\* under the other
CarriesName(p, a, b) ==
    /\ \A k \in {a, b} : p[k] = PyNone \/ (p[k].t = "str" /\ p[k].v # <<>>)
    /\ ~Lacks(p, a, b)

\* C9 (the claim as stated): add() of a payload that carries a machine id, a scrap index
\* (0 included) and a numeric value (0 included), with a well-formed timestamp or none,
\* appends exactly one reading to the buffer
C9_CompleteIsStored ==
    [][Added /\ CarriesName(op'.payload, "machineId", "maschinenId")
             /\ CarriesInt(op'.payload, "scrapIndex", "scrapeIndex")
             /\ op'.payload.value.t = "int"
             /\ op'.payload.timestamp # NotIso /\ op'.payload.zeitstempel # NotIso
        => /\ outcome' = "stored"
           /\ Len(rows') = Len(rows) + 1
           /\ SubSeq(rows', 1, Len(rows)) = rows]_vars

\* C10 (the claim as stated): when the payload has a field under both spellings, the reading
\* stored takes what is under the first (machineId, scrapIndex, timestamp)
C10_FirstSpellingWins ==
    [][Added /\ outcome' = "stored" =>
        LET p == op'.payload
            r == rows'[Len(rows')]
        IN  /\ ~(p.machineId = PyNone \/ p.maschinenId = PyNone) => r.maschinenId = p.machineId
            /\ ~(p.scrapIndex = PyNone \/ p.scrapeIndex = PyNone) => r.scrapIndex = p.scrapIndex
            /\ ~(p.timestamp = PyNone \/ p.zeitstempel = PyNone) =>
                    r.zeitstempel = ParseTimestamp(p.timestamp, now).dt]_vars

\* what the payload holds for a field spelled a or b, when it holds it under one spelling only
FieldOf(p, a, b) == IF p[a] # PyNone THEN p[a] ELSE p[b]

\* p and q name every field under one spelling only, and hold the same values
SameButForSpelling(p, q) ==
    /\ \A f \in {<<"machineId", "maschinenId">>, <<"scrapIndex", "scrapeIndex">>,
                 <<"timestamp", "zeitstempel">>} :
        /\ p[f[1]] = PyNone \/ p[f[2]] = PyNone
        /\ q[f[1]] = PyNone \/ q[f[2]] = PyNone
        /\ FieldOf(p, f[1], f[2]) = FieldOf(q, f[1], f[2])
    /\ p.value = q.value

\* C11 (the claim as stated): two successive calls of add() whose payloads differ only in the
\* spelling that names each field end the same way and store identical readings
C11_SpellingsStoreSameReading ==
    [][op.name = "add" /\ Added /\ SameButForSpelling(op.payload, op'.payload) =>
        /\ outcome' = outcome
        /\ outcome' = "stored" => rows'[Len(rows')] = rows[Len(rows)]]_vars

\* C12 (the claim as stated): every reading in the buffer carries a timestamp that is an
\* instant of UTC, whatever form the payload gave it in
C12_StoredTimestampsAreInstants ==
    \A i \in DOMAIN rows : rows[i].zeitstempel.aware

\* C13: a call of add() that fails with MalformedTimestamp or InvalidValue leaves the buffer,
\* and everything else add() and aggregate() read, as it was before the call
C13_FailedAddChangesNothing ==
    [][Added /\ outcome' \in {"MalformedTimestamp", "InvalidValue"} =>
        /\ rows' = rows
        /\ window_seconds' = window_seconds
        /\ tz_strict' = tz_strict
        /\ now' = now]_vars

\* C13 witness: the third call of add() failed on its value, the buffer holding the two
\* readings stored before it
C13_Witness ==
    /\ op.name = "add" /\ outcome = "InvalidValue"
    /\ nadds = 3 /\ Len(rows) = 2

\* C14 (the claim as stated): no call of aggregate() raises
C14_AggregateNeverRaises == outcome # "raised"

----------------------------------------------------------------------------
(* Properties of the server *)

\* task t is inside aggregate(), between its read of the buffer and its replacement
InCompute(t) == tasks[t].pc \in {"read", "replace"}

\* C15: add() and aggregate() exclude each other on the buffer under every interleaving of the
\* tasks: at most one task is between its add() and the replacement of the buffer, and the
\* buffer a task replaces is still the buffer it read
C15_AddAndComputeExclusive ==
    /\ \A t \in DOMAIN tasks : tasks[t].pc = "replace" => tasks[t].seen = rows
    /\ \A t, u \in DOMAIN tasks : InCompute(t) /\ InCompute(u) => t = u

\* C15 witness: a task is about to replace the buffer while another is suspended in a send
C15_Witness ==
    \E t, u \in DOMAIN tasks : tasks[t].pc = "replace" /\ tasks[u].pc = "sent"

\* the payloads of the well-formed messages
IsWellFormed(p) == \E c \in 0..MaxTime : [json |-> TRUE, payload |-> p] \in WellFormed(c)

\* the frame holds a row for the machine of payload p
HasRowFor(frame, p) == \E i \in DOMAIN frame : frame[i].maschinenId = p.maschinenId

\* C16: a malformed message is dropped and stops nothing. An undecodable message leaves the
\* subscriber listening and the buffer as it was; a task that add() fails on changes nothing
\* but itself; the subscriber never stops listening; and the task of every well-formed message,
\* whatever came before it, stores its reading, computes a frame with a row for its machine and
\* starts a broadcast of it to every registered connection
C16_MalformedStopsNothing ==
    [][/\ subscriber.pc = "listen" => subscriber'.pc = "listen"
       /\ nmsgs' = nmsgs + 1 /\ tasks' = tasks => rows' = rows
       /\ \A t \in DOMAIN tasks :
            /\ tasks[t].pc = "add" /\ tasks'[t].pc = "failed" =>
                /\ rows' = rows /\ subscriber' = subscriber /\ delivered' = delivered
                /\ active_connections' = active_connections
                /\ \A u \in DOMAIN tasks : u # t => tasks'[u] = tasks[u]
            /\ IsWellFormed(tasks[t].payload) /\ tasks'[t] # tasks[t] =>
                /\ tasks[t].pc = "add" => tasks'[t].pc = "read" /\ Len(rows') = Len(rows) + 1
                /\ tasks[t].pc = "read" => tasks'[t].pc = "replace"
                /\ tasks[t].pc = "replace" =>
                    tasks'[t].pc = "row" /\ HasRowFor(tasks'[t].frame, tasks[t].payload)
                /\ tasks[t].pc = "row" =>
                    tasks'[t].pc = "next" /\ tasks'[t].registered = active_connections]_vars

\* C16 witness: the task of a malformed message has failed, and the task of the well-formed
\* message after it has sent a row of its frame to a WebSocket
C16_Witness ==
    \E t \in DOMAIN tasks :
        /\ t > 1 /\ tasks[t - 1].error \in {"MalformedTimestamp", "InvalidValue"}
        /\ tasks[t].pc = "sent"
        /\ \E w \in Sockets : \E i \in DOMAIN delivered[w] :
            delivered[w][i].serial = tasks[t].serial

\* C17: after a transport failure the subscriber sleeps and then connects anew, however often it
\* failed before; it ends only with a cancellation pending, and a pending cancellation is the
\* only thing that happens to it next
C17_RetryUntilCancelled ==
    [][subscriber'.pc # subscriber.pc =>
        /\ subscriber'.failures = subscriber.failures + 1 => subscriber'.pc = "sleep"
        /\ subscriber.pc = "sleep" => subscriber'.pc \in {"connect", "cancelled"}
        /\ subscriber'.pc = "cancelled" => subscriber.cancel
        /\ subscriber.cancel => subscriber'.pc = "cancelled"]_vars

\* C17 witness: the subscriber was cancelled after it had failed twice, so after a retry
C17_Witness == subscriber.pc = "cancelled" /\ subscriber.failures = 2

\* C18 (the claim as stated): to every WebSocket the rows of one group key arrive in the order
\* of the frames they were computed in
C18_DeliveredInSnapshotOrder ==
    \A w \in Sockets : \A i, j \in DOMAIN delivered[w] :
        /\ i < j
        /\ delivered[w][i].maschinenId = delivered[w][j].maschinenId
        /\ delivered[w][i].scrapIndex = delivered[w][j].scrapIndex
        => delivered[w][i].serial <= delivered[w][j].serial

\* task t is inside ConnectionManager.broadcast
InBroadcast(t) == tasks[t].pc \in {"next", "send", "sent"}

\* C19 (the claim as stated): a broadcast never raises, and when it ends it has attempted a
\* send to every connection that was registered when it started
C19_BroadcastSurvivesChurn ==
    [][\A t \in DOMAIN tasks : InBroadcast(t) =>
        /\ tasks'[t].pc # "failed"
        /\ tasks'[t].pc \in {"row", "done"} =>
            tasks[t].registered \subseteq tasks[t].attempted]_vars

\* C20 (the claim as stated): a broadcast in which a send has failed still ends having attempted
\* a send to every connection registered at its start and with the failing ones out of
\* active_connections; and no send is attempted to a connection that is not registered
C20_FailedSendIsIsolated ==
    [][\A t \in DOMAIN tasks :
        /\ InBroadcast(t) /\ tasks[t].disconnected # {} /\ ~InBroadcast(t)' =>
            /\ tasks[t].registered \subseteq tasks[t].attempted
            /\ tasks[t].disconnected \cap active_connections' = {}
        /\ tasks[t].pc = "send" /\ tasks'[t].pc = "sent" =>
            tasks[t].it.pos \in active_connections /\ sockets[tasks[t].it.pos] # "closed"]_vars

====
